---------------------------- MODULE Spec2Model ----------------------------
(***************************************************************************)
(* The election store of tibidata/databases_project: the command layer     *)
(* (DBClient) that turns login, register, vote and create_election into    *)
(* SQL statements (Query) run one statement at a time against the Users,   *)
(* Elections, Candidates and Votes tables.                                  *)
(*                                                                         *)
(* Every DBClient.__query call is one autocommitted statement, so one      *)
(* statement is one atomic step; a handler that issues several statements  *)
(* is several steps, and other clients' statements may run in between.     *)
(* Spec runs one operation at a time (the single-threaded request model);  *)
(* SpecRace lets the statements of two clients interleave.                 *)
(***************************************************************************)
EXTENDS Integers, Sequences, FiniteSets, TLC

(* ------------------------------ bounds ------------------------------- *)
\* no vote request is accepted once the Votes table holds this many rows
MaxVotes == 2

(* ------------------------------ inputs ------------------------------- *)
Procs == {"c1", "c2"}
Usernames == {"u1", "u2"}
ElectionNames == {"n1", "n2"}
CandidateNames == {"a", "b"}
Creators == {"u1"}
\* (username, email, password) triples offered to register and login
Credentials ==
  { [username |-> "u1", email |-> "e1", password |-> "p1"],
    [username |-> "u1", email |-> "e2", password |-> "p2"],
    [username |-> "u2", email |-> "e1", password |-> "p1"] }
\* date strings YYYY-MM-DD as <<year, month, day>>
GoodDate == <<2024, 2, 29>>
BadDate == <<2024, 13, 1>>
NextDay == <<2024, 3, 1>>
\* (start_date, end_date) of a create_election request
DatePairs == {<<GoodDate, GoodDate>>, <<BadDate, GoodDate>>, <<GoodDate, BadDate>>}
Candidate(name, birth_date) ==
  [name |-> name, birth_date |-> birth_date, occupation |-> "occ", program |-> "prog"]
\* the candidates sequences of a create_election request: empty, one
\* candidate, two of one name, two names, and one with a malformed birth_date
Batches ==
  { <<>>,
    <<Candidate("a", GoodDate)>>,
    <<Candidate("a", GoodDate), Candidate("a", GoodDate)>>,
    <<Candidate("a", GoodDate), Candidate("b", GoodDate)>>,
    <<Candidate("a", GoodDate), Candidate("b", BadDate)>> }

\* consecutive seconds of the wall clock around midnight of GoodDate
Clock == << <<2024, 2, 28, 23, 59, 59>>, <<2024, 2, 29, 0, 0, 0>>, <<2024, 2, 29, 0, 0, 1>> >>
\* the two datetime.now() readings taken while one statement is built: the
\* second is the first or the second after it
Readings ==
  UNION {{<<Clock[i], Clock[j]>> : j \in {i, i + 1} \cap (1..Len(Clock))} : i \in 1..Len(Clock)}

VARIABLES Users, Elections, Candidates, Votes, pc, kwargs, ret, election_id,
          results, now, screen, cli
vars == <<Users, Elections, Candidates, Votes, pc, kwargs, ret, election_id,
          results, now, screen, cli>>
tables == <<Users, Elections, Candidates, Votes>>

NoArgs == [query_type |-> "none"]
\* the command-line shell after construction: no menu printed yet, nothing
\* typed, user_logged_in False
NoMenu ==
  [menu |-> "none", login_choice |-> "", control_choice |-> "", login_id |-> "",
   user_logged_in |-> FALSE]
\* the new-election screen before anything was submitted
NoForm == [message |-> "closed"]

(* --------------------------- pure helpers ---------------------------- *)
\* datetime.strptime(date_str, "%Y-%m-%d") accepts the string
IsLeap(y) == (y % 4 = 0 /\ y % 100 # 0) \/ y % 400 = 0
DaysIn(y, m) ==
  IF m = 2 THEN (IF IsLeap(y) THEN 29 ELSE 28)
  ELSE IF m \in {4, 6, 9, 11} THEN 30 ELSE 31
ParsesAsDate(d) ==
  /\ d[1] \in 1..9999
  /\ d[2] \in 1..12
  /\ d[3] \in 1..DaysIn(d[1], d[2])
\* the date formatted without a time of day
format_date_without_time(d) == <<d[1], d[2], d[3]>>
\* strftime("%Y-%m-%d %H:%M:%S") of the parsed date: midnight appended
format_date(d) == <<d[1], d[2], d[3], 0, 0, 0>>

RECURSIVE SetToSeq(_)
SetToSeq(S) ==
  IF S = {} THEN <<>>
  ELSE LET x == CHOOSE y \in S : \A z \in S : y[1] < z[1] \/ (y[1] = z[1] /\ y[2] <= z[2])
       IN  <<x>> \o SetToSeq(S \ {x})

RECURSIVE MapSeq(_, _, _)
\* rows of one INSERT INTO Candidates ... VALUES batch
MapSeq(batch, eid, i) ==
  IF i > Len(batch) THEN <<>>
  ELSE <<[name |-> batch[i].name, birth_date |-> format_date(batch[i].birth_date),
          occupation |-> batch[i].occupation, program |-> batch[i].program,
          election_id |-> eid]>> \o MapSeq(batch, eid, i + 1)

(* ----------------------- statements (Query) -------------------------- *)
\* SELECT password FROM Users WHERE username = u : the matching row numbers
login_query(u) == {i \in 1..Len(Users) : Users[i].username = u}

\* the check with the email condition left out
check_user_query_username_only(u, e) ==
  \E i \in 1..Len(Users) : Users[i].username = u
\* the check with AND in place of OR
check_user_query_both(u, e) ==
  \E i \in 1..Len(Users) : Users[i].username = u /\ Users[i].email = e
\* SELECT * FROM Users WHERE username = u OR email = e : is the result non-empty
check_user_query(u, e) ==
  \E i \in 1..Len(Users) : Users[i].username = u \/ Users[i].email = e

\* INSERT INTO Users (username, email, password, last_login) VALUES (.., NULL)
register_query(u, e, p) ==
  [username |-> u, email |-> e, password |-> p, last_login |-> "NULL"]

\* the check that also refuses an election that opens after February 2024
check_vote_query_or_not_open(u, n) ==
  \/ \E i \in 1..Len(Votes) :
       /\ Votes[i].username = u
       /\ Votes[i].election_id \in 1..Len(Elections)
       /\ Elections[Votes[i].election_id].name = n
  \/ \E e \in 1..Len(Elections) :
       Elections[e].name = n /\ Elections[e].start_time[2] > 2
\* SELECT EXISTS (... Votes v JOIN Elections e ON v.election_id = e.id
\*                WHERE v.username = u AND e.name = n) AS has_voted
check_vote_query(u, n) ==
  \E i \in 1..Len(Votes) :
    /\ Votes[i].username = u
    /\ Votes[i].election_id \in 1..Len(Elections)
    /\ Elections[Votes[i].election_id].name = n

\* the join without its ON condition
vote_join_without_on(n, cn) ==
  SetToSeq({<<e, c>> \in (1..Len(Elections)) \X (1..Len(Candidates)) :
              /\ Elections[e].name = n
              /\ Candidates[c].name = cn})
\* FROM Elections e JOIN Candidates c ON c.election_id = e.id
\* WHERE e.name = n AND c.name = cn : the (e.id, c.id) pairs, in id order
vote_join(n, cn) ==
  SetToSeq({<<e, c>> \in (1..Len(Elections)) \X (1..Len(Candidates)) :
              /\ Candidates[c].election_id = e
              /\ Elections[e].name = n
              /\ Candidates[c].name = cn})
\* the insert made conditional on the absence of a vote (WHERE NOT EXISTS ...)
vote_query_if_absent(u, n, cn) ==
  IF check_vote_query(u, n) THEN <<>>
  ELSE [k \in 1..Len(vote_join(n, cn)) |->
         [username |-> u, election_id |-> vote_join(n, cn)[k][1],
          candidate_id |-> vote_join(n, cn)[k][2]]]
\* INSERT INTO Votes (username, election_id, candidate_id, vote_time)
\* SELECT u, e.id, c.id, CURRENT_TIMESTAMP FROM <the join> : one row per pair
vote_query(u, n, cn) ==
  [k \in 1..Len(vote_join(n, cn)) |->
     [username |-> u, election_id |-> vote_join(n, cn)[k][1],
      candidate_id |-> vote_join(n, cn)[k][2]]]

\* the check comparing the wrong column
check_election_query_description(n) ==
  \E i \in 1..Len(Elections) : Elections[i].description = n
\* the check that only sees elections that have candidates
check_election_query_with_candidates(n) ==
  \E i \in 1..Len(Elections) :
    /\ Elections[i].name = n
    /\ \E c \in 1..Len(Candidates) : Candidates[c].election_id = i
\* SELECT EXISTS (SELECT 1 FROM Elections WHERE name = n) AS election_exists
check_election_query(n) == \E i \in 1..Len(Elections) : Elections[i].name = n

\* INSERT INTO Elections (name, description, start_time, end_time, creator_username)
create_election_query(a) ==
  [name |-> a.election_name, description |-> a.election_description,
   start_time |-> format_date(a.start_date), end_time |-> format_date(a.end_date),
   creator_username |-> a.creator_username]

\* the id looked up by the new row's name instead of taken from the insert
first_id_of_name(table) ==
  CHOOSE i \in 1..Len(table) :
    /\ table[i].name = table[Len(table)].name
    /\ \A j \in 1..(i - 1) : table[j].name # table[Len(table)].name
\* cursor.lastrowid after an INSERT of one row: the generated id of that row
lastrowid(table) == Len(table)

\* the batch attached to the first election whatever id was generated
insert_candidates_query_first_election(batch, eid) == MapSeq(batch, 1, 1)
\* the batch without its first candidate
insert_candidates_query_skip_first(batch, eid) == MapSeq(batch, eid, 2)
\* INSERT INTO Candidates (...) VALUES (...), (...) carrying election_id eid;
\* an empty batch is the malformed statement "... VALUES ;" which the backend
\* rejects, and DBClient.__create_election ignores the statement's outcome
insert_candidates_query(batch, eid) == MapSeq(batch, eid, 1)

\* the rows of Candidates JOIN Elections ON c.election_id = e.id WHERE e.name = n
candidates_join(n) ==
  {c \in 1..Len(Candidates) :
     /\ Candidates[c].election_id \in 1..Len(Elections)
     /\ Elections[Candidates[c].election_id].name = n}
\* the listing without the WHERE e.name = n condition
list_election_candidates_query_all(n) ==
  {[id |-> c, name |-> Candidates[c].name, birth_date |-> Candidates[c].birth_date,
    occupation |-> Candidates[c].occupation, program |-> Candidates[c].program] :
     c \in {d \in 1..Len(Candidates) : Candidates[d].election_id \in 1..Len(Elections)}}
\* SELECT c.id, c.name, c.birth_date, c.occupation, c.program FROM the join
list_election_candidates_query(n) ==
  {[id |-> c, name |-> Candidates[c].name, birth_date |-> Candidates[c].birth_date,
    occupation |-> Candidates[c].occupation, program |-> Candidates[c].program] :
     c \in candidates_join(n)}

\* a row of SELECT * FROM Elections
election_row(e) ==
  [id |-> e, name |-> Elections[e].name, description |-> Elections[e].description,
   start_time |-> Elections[e].start_time, end_time |-> Elections[e].end_time,
   creator_username |-> Elections[e].creator_username]
\* SELECT * FROM Elections
list_elections_query == {election_row(e) : e \in 1..Len(Elections)}

RECURSIVE at_or_before(_, _, _)
\* timestamp s <= timestamp t, compared field by field from position i
at_or_before(s, t, i) ==
  IF i > Len(s) THEN TRUE
  ELSE IF s[i] # t[i] THEN s[i] < t[i]
  ELSE at_or_before(s, t, i + 1)
\* the window test with both bounds exclusive
list_live_elections_query_strict(first, second) ==
  {election_row(e) : e \in {i \in 1..Len(Elections) :
                               /\ ~at_or_before(first, Elections[i].start_time, 1)
                               /\ ~at_or_before(Elections[i].end_time, second, 1)}}
\* SELECT * FROM Elections WHERE start_time <= '<first>' AND end_time >= '<second>'
list_live_elections_query(first, second) ==
  {election_row(e) : e \in {i \in 1..Len(Elections) :
                               /\ at_or_before(Elections[i].start_time, first, 1)
                               /\ at_or_before(second, Elections[i].end_time, 1)}}

\* COUNT(v.id) of one group of ... LEFT JOIN Votes v ON c.id = v.candidate_id
\* GROUP BY e.name, c.name : the joined Vote rows of all candidates named cn
vote_count(n, cn) ==
  Cardinality({<<c, v>> \in candidates_join(n) \X (1..Len(Votes)) :
                 Candidates[c].name = cn /\ Votes[v].candidate_id = c})
\* the position of a candidate name in ascending order
collation(name) == CASE name = "a" -> 1 [] name = "b" -> 2
\* the ordering by candidate_name alone
order_by_name_only(r1, r2) ==
  collation(r1.candidate_name) <= collation(r2.candidate_name)
\* ORDER BY vote_count DESC, candidate_name ASC : r1 is not after r2
order_by(r1, r2) ==
  \/ r1.vote_count > r2.vote_count
  \/ /\ r1.vote_count = r2.vote_count
     /\ collation(r1.candidate_name) <= collation(r2.candidate_name)
RECURSIVE sorted(_)
sorted(S) ==
  IF S = {} THEN <<>>
  ELSE LET r == CHOOSE x \in S : \A y \in S : order_by(x, y)
       IN  <<r>> \o sorted(S \ {r})
\* SELECT e.name AS election_name, c.name AS candidate_name, COUNT(v.id) AS
\* vote_count ... WHERE e.name = n GROUP BY e.name, c.name ORDER BY ...
view_results_query(n) ==
  sorted({[election_name |-> n, candidate_name |-> cn, vote_count |-> vote_count(n, cn)] :
            cn \in {Candidates[c].name : c \in candidates_join(n)}})

\* the write that puts the new rows in the place of the table's last row
replace_into(table, rows) ==
  IF table = <<>> THEN rows ELSE SubSeq(table, 1, Len(table) - 1) \o rows
\* cursor.execute of an INSERT statement followed by connection.commit():
\* the new rows are added after the rows the table holds
insert_into(table, rows) == table \o rows

\* Does the backend refuse to insert these rows into the table? The schema
\* script is not among the sources; the data model leaves uniqueness to the
\* handlers' existence checks and names no constraint the backend enforces.
rejected_by_schema(table, rows) == FALSE

(* ------------------------------- Init -------------------------------- *)
Init ==
  /\ Users = <<>>
  /\ Elections = <<>>
  /\ Candidates = <<>>
  /\ Votes = <<>>
  /\ pc = [p \in Procs |-> "idle"]
  /\ kwargs = [p \in Procs |-> NoArgs]
  /\ ret = [p \in Procs |-> "none"]
  /\ election_id = [p \in Procs |-> 0]
  /\ results = [p \in Procs |-> <<>>]
  /\ now = [p \in Procs |-> <<>>]
  /\ screen = [p \in Procs |-> NoForm]
  /\ cli = [p \in Procs |-> NoMenu]

(* --------------------------- DBClient.__call__ ----------------------- *)
\* the requests a client may send: query_type plus the handler's parameters
LoginRequests(creds) ==
  {[query_type |-> "login", username |-> c.username, password |-> c.password] : c \in creds}
RegisterRequests(creds) ==
  {[query_type |-> "register", username |-> c.username, email |-> c.email,
    password |-> c.password] : c \in creds}
VoteRequests(users, names, cands) ==
  [query_type : {"vote"}, username : users, election_name : names, candidate_name : cands]
CreateElectionRequests(names, dates, batches) ==
  {[query_type |-> "create_election", election_name |-> n,
    election_description |-> "descr", start_date |-> d[1], end_date |-> d[2],
    creator_username |-> u, candidates |-> b] :
     n \in names, d \in dates, u \in Creators, b \in batches}

ViewRequests(names) ==
  {[query_type |-> "list_elections"], [query_type |-> "list_live_elections"]}
    \cup [query_type : {"view_results", "list_election_candidates"}, election_name : names]

\* requests that name no public operation: no name at all (kwargs.get yields
\* None), a name unknown everywhere, and the internal statements of Query
InvalidRequests ==
  { [query_type |-> "None"], [query_type |-> "drop"],
    [query_type |-> "check_user", username |-> "u1", email |-> "e1"],
    [query_type |-> "check_vote", username |-> "u1", election_name |-> "n1"],
    [query_type |-> "check_election", election_name |-> "n1"],
    [query_type |-> "insert_candidates", election_id |-> 1,
     candidates |-> <<Candidate("a", GoodDate)>>] }

Requests ==
  LoginRequests(Credentials) \cup RegisterRequests(Credentials)
    \cup VoteRequests(Usernames, ElectionNames, CandidateNames)
    \cup CreateElectionRequests(ElectionNames, DatePairs, Batches)
    \cup ViewRequests(ElectionNames)
    \cup InvalidRequests

\* requests of the runs about the voting window: elections that are open on
\* GoodDate only, from GoodDate to the next day, and on the next day only
LiveDatePairs == {<<GoodDate, GoodDate>>, <<GoodDate, NextDay>>, <<NextDay, NextDay>>}
LiveRequests ==
  CreateElectionRequests(ElectionNames, LiveDatePairs, {<<Candidate("a", GoodDate)>>})
    \cup {r \in ViewRequests({}) : r.query_type = "list_live_elections"}

\* what the new-election screen may hold when its button is pressed: a date
\* entry is <<>> when left empty, a text entry is ""
Forms ==
  [candidates : {<<>>, <<Candidate("a", GoodDate)>>, <<Candidate("a", BadDate)>>},
   election_name : {"", "n1"},
   election_description : {"", "descr"},
   start_date : {<<>>, GoodDate, NextDay, BadDate},
   end_date : {<<>>, GoodDate, NextDay, BadDate},
   creator_username : Creators]

\* requests of the runs about votes and voting windows: the elections of
\* LiveRequests, and votes for them
WindowRequests ==
  {r \in LiveRequests : r.query_type = "create_election"}
    \cup VoteRequests({"u1"}, ElectionNames, {"a", "b"})

\* requests of the interleaved runs: two clients aim at the same user, the
\* same election name and the same (username, election) pair
RaceBatches ==
  {b \in Batches : \A i \in 1..Len(b) : b[i].name = "a" /\ b[i].birth_date = GoodDate}
RaceRequests ==
  LoginRequests(Credentials) \cup RegisterRequests(Credentials)
    \cup VoteRequests({"u1"}, {"n1"}, CandidateNames)
    \cup CreateElectionRequests({"n1"}, {<<GoodDate, GoodDate>>}, RaceBatches)
    \cup {r \in ViewRequests({"n1"}) : r.query_type \in {"view_results", "list_elections"}}

\* the dispatch that also looks up the statements of Query.query_map
query_type_map_or_query_map(query_type) ==
  CASE query_type = "login" -> "login"
    [] query_type = "register" -> "check_user"
    [] query_type = "vote" -> "check_vote"
    [] query_type = "create_election" -> "check_election"
    [] query_type \in {"view_results", "list_elections", "list_live_elections",
                       "list_election_candidates"} -> "view_elections"
    [] query_type = "insert_candidates" -> "insert_candidates"
    [] OTHER -> "None"
\* query_type_map.get(query_type): the handler's first statement, or None
query_type_map(query_type) ==
  CASE query_type = "login" -> "login"
    [] query_type = "register" -> "check_user"
    [] query_type = "vote" -> "check_vote"
    [] query_type = "create_election" -> "check_election"
    [] query_type \in {"view_results", "list_elections", "list_live_elections",
                       "list_election_candidates"} -> "view_elections"
    [] OTHER -> "None"

\* the Votes table is kept within its bound by not accepting a vote request
\* once it is full; the other tables are bounded by the requests themselves
HasRoom(query_type) == query_type = "vote" => Len(Votes) < MaxVotes

\* the call ends: a value is returned or an exception raised
Finish(p, value) ==
  /\ pc' = [pc EXCEPT ![p] = "done"]
  /\ ret' = [ret EXCEPT ![p] = value]

\* the dispatcher receives a request and picks the handler; without a handler
\* for the name it raises ValueError("Invalid query_type: ...")
Dispatch(p, r) ==
  /\ kwargs' = [kwargs EXCEPT ![p] = r]
  /\ IF query_type_map(r.query_type) = "None"
     THEN Finish(p, "ValueError")
     ELSE /\ pc' = [pc EXCEPT ![p] = query_type_map(r.query_type)]
          /\ ret' = [ret EXCEPT ![p] = "none"]
  /\ election_id' = [election_id EXCEPT ![p] = 0]
  /\ results' = [results EXCEPT ![p] = <<>>]
  /\ now' = [now EXCEPT ![p] = <<>>]
  /\ UNCHANGED tables
\* a client sends one of the requests
Call(p, requests) ==
  /\ pc[p] = "idle"
  /\ \E r \in requests : HasRoom(r.query_type) /\ Dispatch(p, r)
  /\ UNCHANGED <<screen, cli>>

\* the handler's value has been handed back to the caller
Return(p) ==
  /\ pc[p] = "done"
  /\ pc' = [pc EXCEPT ![p] = "idle"]
  /\ kwargs' = [kwargs EXCEPT ![p] = NoArgs]
  /\ ret' = [ret EXCEPT ![p] = "none"]
  /\ election_id' = [election_id EXCEPT ![p] = 0]
  /\ results' = [results EXCEPT ![p] = <<>>]
  /\ now' = [now EXCEPT ![p] = <<>>]
  /\ UNCHANGED <<tables, screen, cli>>

(* ----------------------- DBClient.__validate_login ------------------- *)
\* the password left uncompared
password_ignored(i, password) == TRUE
\* result["result"][0]["password"] == kwargs.get("password"), for result row i
password_matches(i, password) == Users[i].password = password

\* the login that stamps last_login on the rows of Users
users_after_login_stamped(users) ==
  [i \in 1..Len(users) |-> [users[i] EXCEPT !.last_login = "CURRENT_TIMESTAMP"]]
\* __validate_login issues its SELECT and no other statement: the Users
\* table, last_login included, is as it was
users_after_login(users) == users

\* one SELECT; the statement has no ORDER BY, so with several rows of that
\* username any of them may come first
ValidateLogin(p) ==
  /\ pc[p] = "login"
  /\ LET result == login_query(kwargs[p].username)
     IN  IF result = {}
         THEN Finish(p, "False")
         ELSE \E first \in result :
                Finish(p, IF password_matches(first, kwargs[p].password)
                          THEN "True" ELSE "False")
  /\ Users' = users_after_login(Users)
  /\ UNCHANGED <<Elections, Candidates, Votes, kwargs, election_id, results, now, screen, cli>>

(* -------------------------- DBClient.__register ---------------------- *)
RegisterCheck(p) ==
  /\ pc[p] = "check_user"
  /\ IF check_user_query(kwargs[p].username, kwargs[p].email)
     THEN Finish(p, "False")
     ELSE pc' = [pc EXCEPT ![p] = "register"] /\ UNCHANGED ret
  /\ UNCHANGED <<tables, kwargs, election_id, results, now, screen, cli>>

\* the INSERT's response is not looked at
RegisterInsert(p) ==
  /\ pc[p] = "register"
  /\ LET row == register_query(kwargs[p].username, kwargs[p].email, kwargs[p].password)
     IN  Users' = IF rejected_by_schema("Users", <<row>>) THEN Users
                  ELSE insert_into(Users, <<row>>)
  /\ Finish(p, "True")
  /\ UNCHANGED <<Elections, Candidates, Votes, kwargs, election_id, results, now, screen, cli>>

(* ---------------------------- DBClient.__vote ------------------------ *)
VoteCheck(p) ==
  /\ pc[p] = "check_vote"
  /\ IF check_vote_query(kwargs[p].username, kwargs[p].election_name)
     THEN Finish(p, "False")
     ELSE pc' = [pc EXCEPT ![p] = "vote"] /\ UNCHANGED ret
  /\ UNCHANGED <<tables, kwargs, election_id, results, now, screen, cli>>

\* the INSERT ... SELECT runs and True is returned whatever it inserted
VoteInsert(p) ==
  /\ pc[p] = "vote"
  /\ LET rows == vote_query(kwargs[p].username, kwargs[p].election_name,
                            kwargs[p].candidate_name)
     IN  Votes' = IF rejected_by_schema("Votes", rows) THEN Votes ELSE insert_into(Votes, rows)
  /\ Finish(p, "True")
  /\ UNCHANGED <<Users, Elections, Candidates, kwargs, election_id, results, now, screen, cli>>

(* ----------------------- DBClient.__create_election ------------------ *)
CreateElectionCheck(p) ==
  /\ pc[p] = "check_election"
  /\ IF check_election_query(kwargs[p].election_name)
     THEN Finish(p, "False")
     ELSE pc' = [pc EXCEPT ![p] = "create_election"] /\ UNCHANGED ret
  /\ UNCHANGED <<tables, kwargs, election_id, results, now, screen, cli>>

\* Query.__create_election formats both dates while building the statement;
\* a date that does not parse raises ValueError before anything is executed.
\* A refused INSERT answers with the (error, 500) pair, and reading
\* ["new_record_id"] from the pair raises TypeError.
CreateElectionInsert(p) ==
  /\ pc[p] = "create_election"
  /\ IF ~(ParsesAsDate(kwargs[p].start_date) /\ ParsesAsDate(kwargs[p].end_date))
     THEN /\ Finish(p, "ValueError")
          /\ UNCHANGED <<Elections, election_id>>
     ELSE IF rejected_by_schema("Elections", <<create_election_query(kwargs[p])>>)
     THEN /\ Finish(p, "TypeError")
          /\ UNCHANGED <<Elections, election_id>>
     ELSE /\ Elections' = insert_into(Elections, <<create_election_query(kwargs[p])>>)
          /\ election_id' = [election_id EXCEPT ![p] = lastrowid(Elections')]
          /\ pc' = [pc EXCEPT ![p] = "insert_candidates"]
          /\ UNCHANGED ret
  /\ UNCHANGED <<Users, Candidates, Votes, kwargs, results, now, screen, cli>>

\* Query.__insert_candidates formats every birth_date while building the
\* statement; the statement's outcome is not looked at
InsertCandidates(p) ==
  /\ pc[p] = "insert_candidates"
  /\ IF \A i \in 1..Len(kwargs[p].candidates) :
          ParsesAsDate(kwargs[p].candidates[i].birth_date)
     THEN /\ LET rows == insert_candidates_query(kwargs[p].candidates, election_id[p])
             IN  Candidates' = IF rejected_by_schema("Candidates", rows) THEN Candidates
                               ELSE insert_into(Candidates, rows)
          /\ Finish(p, "True")
     ELSE /\ Finish(p, "ValueError")
          /\ UNCHANGED Candidates
  /\ UNCHANGED <<Users, Elections, Votes, kwargs, election_id, results, now, screen, cli>>

(* ----------------------- DBClient.__view_elections ------------------ *)
\* the sequences that list the rows of S once each: a SELECT without ORDER BY
\* may hand back its rows in any order
AnyOrder(S) ==
  {s \in [1..Cardinality(S) -> S] : \A i, j \in 1..Cardinality(S) : s[i] = s[j] => i = j}
\* the possible results of the statement of a read request
view_query(a, reading) ==
  CASE a.query_type = "view_results" -> {view_results_query(a.election_name)}
    [] a.query_type = "list_elections" -> AnyOrder(list_elections_query)
    [] a.query_type = "list_live_elections" ->
         AnyOrder(list_live_elections_query(reading[1], reading[2]))
    [] a.query_type = "list_election_candidates" ->
         AnyOrder(list_election_candidates_query(a.election_name))

\* one SELECT; "return results if results else None"
ViewElections(p) ==
  /\ pc[p] = "view_elections"
  /\ \E reading \in (IF kwargs[p].query_type = "list_live_elections"
                      THEN Readings ELSE {<<>>}) :
       /\ now' = [now EXCEPT ![p] = reading]
       /\ \E rows \in view_query(kwargs[p], reading) :
            /\ results' = [results EXCEPT ![p] = rows]
            /\ Finish(p, IF rows # <<>> THEN "list" ELSE "None")
  /\ UNCHANGED <<tables, kwargs, election_id, screen, cli>>

(* --------------------------- specifications -------------------------- *)
\* one operation at a time (the single-threaded request model): a request
\* is taken up only while no other client is inside a handler
NoOtherRunning(p) == \A q \in Procs \ {p} : pc[q] = "idle"
CallInTurn(p) == NoOtherRunning(p) /\ Call(p, Requests)
Next ==
  \E p \in Procs :
    \/ CallInTurn(p)
    \/ ValidateLogin(p)
    \/ RegisterCheck(p)
    \/ RegisterInsert(p)
    \/ VoteCheck(p)
    \/ VoteInsert(p)
    \/ CreateElectionCheck(p)
    \/ CreateElectionInsert(p)
    \/ InsertCandidates(p)
    \/ ViewElections(p)
    \/ Return(p)
Spec == Init /\ [][Next]_vars

\* the statements of two clients interleave freely
CallAnyTime(p) == Call(p, RaceRequests)
NextRace ==
  \E p \in Procs :
    \/ CallAnyTime(p)
    \/ ValidateLogin(p)
    \/ RegisterCheck(p)
    \/ RegisterInsert(p)
    \/ VoteCheck(p)
    \/ VoteInsert(p)
    \/ CreateElectionCheck(p)
    \/ CreateElectionInsert(p)
    \/ InsertCandidates(p)
    \/ ViewElections(p)
    \/ Return(p)
SpecRace == Init /\ [][NextRace]_vars

\* one operation at a time, on elections with different voting windows
CallLive(p) == NoOtherRunning(p) /\ Call(p, LiveRequests)
NextLive ==
  \E p \in Procs :
    \/ CallLive(p)
    \/ CreateElectionCheck(p)
    \/ CreateElectionInsert(p)
    \/ InsertCandidates(p)
    \/ ViewElections(p)
    \/ Return(p)
SpecLive == Init /\ [][NextLive]_vars

\* the statement client p is about to run has been built: its dates parse
Built(p) ==
  /\ pc[p] = "create_election" =>
       ParsesAsDate(kwargs[p].start_date) /\ ParsesAsDate(kwargs[p].end_date)
  /\ pc[p] = "insert_candidates" =>
       \A i \in 1..Len(kwargs[p].candidates) :
         ParsesAsDate(kwargs[p].candidates[i].birth_date)
\* DBClient.__query catches mysql.connector.Error (connection lost, statement
\* refused) and returns the pair ({"error": ...}, 500) in place of the
\* response. A handler that reads ["result"] or ["new_record_id"] from the
\* pair raises TypeError, __view_elections calling .get on it raises
\* AttributeError, and the handlers that do not look at the response of
\* their INSERT go on to return True.
Fault(p) ==
  /\ pc[p] \in {"login", "check_user", "register", "check_vote", "vote", "check_election",
                "create_election", "insert_candidates", "view_elections"}
  /\ Built(p)
  /\ Finish(p, CASE pc[p] \in {"register", "vote", "insert_candidates"} -> "True"
                 [] pc[p] = "view_elections" -> "AttributeError"
                 [] OTHER -> "TypeError")
  /\ UNCHANGED <<tables, kwargs, election_id, results, now, screen, cli>>

\* one operation at a time, each statement liable to a backend fault
NextFault ==
  \E p \in Procs :
    \/ CallInTurn(p)
    \/ ValidateLogin(p)
    \/ RegisterCheck(p)
    \/ RegisterInsert(p)
    \/ VoteCheck(p)
    \/ VoteInsert(p)
    \/ CreateElectionCheck(p)
    \/ CreateElectionInsert(p)
    \/ InsertCandidates(p)
    \/ ViewElections(p)
    \/ Fault(p)
    \/ Return(p)
SpecFault == Init /\ [][NextFault]_vars

(* ------------------ NewElectionScreen.create_election -------------- *)
\* the comparison that lets equal dates through
end_after_start_or_equal(start_date, end_date) == at_or_before(start_date, end_date, 1)
\* not (end_date <= start_date), for two parsed dates
end_after_start(start_date, end_date) == ~at_or_before(end_date, start_date, 1)
\* the error the screen shows for the form, or "none" when it sends the request
validate(form) ==
  IF form.candidates = <<>> THEN "At least 1 candidate is required"
  ELSE IF \/ form.election_name = "" \/ form.election_description = ""
          \/ form.start_date = <<>> \/ form.end_date = <<>>
          \/ form.creator_username = ""
       THEN "Fill out all the fields."
  ELSE IF ~(ParsesAsDate(form.start_date) /\ ParsesAsDate(form.end_date))
       THEN "Please enter dates in the format YYYY-MM-DD."
  ELSE IF ~end_after_start(form.start_date, form.end_date)
       THEN "End date must be after start date."
  ELSE "none"
\* api_connector(process="create_election", values=election_details)
election_details(form) ==
  [query_type |-> "create_election", election_name |-> form.election_name,
   election_description |-> form.election_description, start_date |-> form.start_date,
   end_date |-> form.end_date, creator_username |-> form.creator_username,
   candidates |-> form.candidates]
\* the button of the screen is pressed: the form is validated, and either an
\* error box is shown and nothing is sent, or the request goes to the store
CreateElectionScreen(p) ==
  /\ pc[p] = "idle"
  /\ NoOtherRunning(p)
  /\ \E form \in Forms :
       /\ screen' = [screen EXCEPT ![p] = [message |-> validate(form), form |-> form]]
       /\ IF validate(form) = "none"
          THEN Dispatch(p, election_details(form))
          ELSE UNCHANGED <<tables, pc, kwargs, ret, election_id, results, now>>
  /\ UNCHANGED cli

\* every election is created through the one open screen, one operation at
\* a time
ScreenProcs == {"c1"}
NextScreen ==
  \E p \in ScreenProcs :
    \/ CreateElectionScreen(p)
    \/ CreateElectionCheck(p)
    \/ CreateElectionInsert(p)
    \/ InsertCandidates(p)
    \/ Return(p)
SpecScreen == Init /\ [][NextScreen]_vars

(* ------------------------------ CLIInterface ------------------------- *)
\* what may be typed at a menu: its entries and something else
Choices == {"0", "1", "2", "3", "9"}
\* the stub accepts every login
cli_validate_login(login_id, password) == TRUE
\* CLIInterface.login on one typed choice and login ID: the shell afterwards.
\* A return of True leaves the first loop of __call__, whose second loop
\* prints the control menu; a return of False, and choices 3 and unknown,
\* print the login menu again.
login(c, choice, login_id) ==
  CASE choice = "1" ->
         IF cli_validate_login(login_id, "pw")
         THEN [c EXCEPT !.login_choice = choice, !.login_id = login_id,
                        !.user_logged_in = TRUE, !.menu = "control"]
         ELSE [c EXCEPT !.login_choice = choice, !.login_id = login_id]
    [] choice = "2" -> [c EXCEPT !.login_choice = choice, !.login_id = login_id]
    [] choice = "0" -> [c EXCEPT !.login_choice = choice, !.menu = "control"]
    [] OTHER -> [c EXCEPT !.login_choice = choice]
\* CLIInterface.main_screen on one typed choice: a return of True leaves the
\* second loop of __call__ and the program ends
main_screen(c, choice) ==
  IF choice = "0" THEN [c EXCEPT !.control_choice = choice, !.menu = "ended"]
  ELSE [c EXCEPT !.control_choice = choice]

\* __call__ starts: the first loop calls login, which prints the login menu
CLICall(p) ==
  /\ cli[p].menu = "none"
  /\ cli' = [cli EXCEPT ![p].menu = "login"]
  /\ UNCHANGED <<tables, pc, kwargs, ret, election_id, results, now, screen>>
\* a choice is typed at the login menu
CLILogin(p) ==
  /\ cli[p].menu = "login"
  /\ \E choice \in Choices, login_id \in Usernames :
       cli' = [cli EXCEPT ![p] = login(cli[p], choice, login_id)]
  /\ UNCHANGED <<tables, pc, kwargs, ret, election_id, results, now, screen>>
\* a choice is typed at the control menu
CLIMainScreen(p) ==
  /\ cli[p].menu = "control"
  /\ \E choice \in Choices :
       cli' = [cli EXCEPT ![p] = main_screen(cli[p], choice)]
  /\ UNCHANGED <<tables, pc, kwargs, ret, election_id, results, now, screen>>
\* each client's shell, from start to exit
NextCLI ==
  \E p \in Procs :
    \/ CLICall(p)
    \/ CLILogin(p)
    \/ CLIMainScreen(p)
SpecCLI == Init /\ [][NextCLI]_vars

\* one operation at a time: votes for elections that are open, over or not
\* yet open
CallWindow(p) == NoOtherRunning(p) /\ Call(p, WindowRequests)
NextWindow ==
  \E p \in Procs :
    \/ CallWindow(p)
    \/ VoteCheck(p)
    \/ VoteInsert(p)
    \/ CreateElectionCheck(p)
    \/ CreateElectionInsert(p)
    \/ InsertCandidates(p)
    \/ Return(p)
SpecWindow == Init /\ [][NextWindow]_vars

TypeOK ==
  /\ pc \in [Procs -> {"idle", "login", "check_user", "register", "check_vote", "vote",
                       "check_election", "create_election", "insert_candidates",
                       "view_elections", "done"}]
  /\ ret \in [Procs -> {"none", "True", "False", "ValueError", "TypeError", "list", "None",
                        "AttributeError"}]
  /\ \A p \in Procs : ret[p] # "list" => results[p] = <<>>
  /\ \A p \in Procs : now[p] \in Readings \cup {<<>>}
  /\ election_id \in [Procs -> 0..Len(Elections)]
  /\ \A p \in Procs : (pc[p] = "idle") <=> (kwargs[p] = NoArgs)

(* ===================================================================== *)
(* Properties                                                            *)
(* ===================================================================== *)
\* the Vote rows of user u in an election named n
VoteRowsOf(votes, u, n) ==
  {i \in 1..Len(votes) :
     /\ votes[i].username = u
     /\ \E e \in 1..Len(Elections) : e = votes[i].election_id /\ Elections[e].name = n}
\* the Candidate rows named cn that belong to an election named n
CandidateRowsOf(n, cn) ==
  {c \in 1..Len(Candidates) :
     /\ Candidates[c].name = cn
     /\ \E e \in 1..Len(Elections) : e = Candidates[c].election_id /\ Elections[e].name = n}
\* client p's handler returns in this step
Returns(p, query_type) ==
  /\ kwargs[p].query_type = query_type
  /\ pc[p] # "done"
  /\ pc'[p] = "done"

(* C1: a vote call run without interleaving returns true and adds exactly  *)
(* one Vote row (that user, that election, that candidate) if the user has *)
(* no Vote row in that election beforehand, whatever the candidate and     *)
(* election names; otherwise it returns false and adds no row.             *)
C1_VoteAddsExactlyOneRow ==
  [][\A p \in Procs :
       Returns(p, "vote") =>
         LET u == kwargs[p].username
             n == kwargs[p].election_name
             cn == kwargs[p].candidate_name
         IN  IF VoteRowsOf(Votes, u, n) = {}
             THEN /\ ret'[p] = "True"
                  /\ Len(Votes') = Len(Votes) + 1
                  /\ SubSeq(Votes', 1, Len(Votes)) = Votes
                  /\ Votes'[Len(Votes')].username = u
                  /\ Votes'[Len(Votes')].candidate_id \in CandidateRowsOf(n, cn)
                  /\ Votes'[Len(Votes')].election_id =
                       Candidates[Votes'[Len(Votes')].candidate_id].election_id
             ELSE /\ ret'[p] = "False"
                  /\ Votes' = Votes]_vars

(* C2: with operations run one at a time, the Votes table holds at most    *)
(* one row per (username, election).                                       *)
C2_OneVotePerUserAndElection ==
  \A i, j \in 1..Len(Votes) :
    (Votes[i].username = Votes[j].username /\ Votes[i].election_id = Votes[j].election_id)
      => i = j

(* C3: for a fixed (username, existing election) and vote calls run one    *)
(* at a time,                                                              *)
(* a call returns true exactly when it names a candidate of the election   *)
(* and no earlier call for the pair named one (an earlier such call left   *)
(* a Vote row of the pair, others left none); calls naming a candidate     *)
(* that is not in the election do not succeed.                             *)
C3_OnlyFirstValidVoteSucceeds ==
  [][\A p \in Procs :
       (Returns(p, "vote") /\ \E e \in 1..Len(Elections) :
                                 Elections[e].name = kwargs[p].election_name) =>
         ( ret'[p] = "True" <=>
             /\ CandidateRowsOf(kwargs[p].election_name, kwargs[p].candidate_name) # {}
             /\ VoteRowsOf(Votes, kwargs[p].username, kwargs[p].election_name) = {} )]_vars

\* client p's step takes it out of the statement at label
Leaves(p, label) == pc[p] = label /\ pc'[p] # label
\* clients p and q are both inside (or just out of) a call of that kind
BothCalled(p, q, query_type) ==
  /\ p # q
  /\ kwargs[p].query_type = query_type
  /\ kwargs[q].query_type = query_type

WellFormedDates(a) ==
  /\ ParsesAsDate(a.start_date)
  /\ ParsesAsDate(a.end_date)
  /\ \A i \in 1..Len(a.candidates) : ParsesAsDate(a.candidates[i].birth_date)
ElectionRowsNamed(elections, n) == {e \in 1..Len(elections) : elections[e].name = n}
\* table' is table with k rows added at the end
Extends(table, tableNext, k) ==
  /\ Len(tableNext) = Len(table) + k
  /\ SubSeq(tableNext, 1, Len(table)) = table

(* C5: a create_election call with well-formed dates run without           *)
(* interleaving: if no Election row has the name, it inserts exactly one   *)
(* Election row, then one Candidate row per entry of the candidates        *)
(* sequence, each carrying the generated id of the new Election row, and   *)
(* returns true; if a row with the name exists it returns false and        *)
(* inserts no Election row and no Candidate row.                           *)
C5_CreateElectionContract ==
  [][\A p \in Procs :
       (kwargs[p].query_type = "create_election" /\ WellFormedDates(kwargs[p])) =>
         LET n == kwargs[p].election_name
             batch == kwargs[p].candidates
             exists == ElectionRowsNamed(Elections, n) # {}
         IN  /\ Leaves(p, "check_election") =>
                  /\ Elections' = Elections /\ Candidates' = Candidates
                  /\ IF exists THEN pc'[p] = "done" /\ ret'[p] = "False"
                               ELSE pc'[p] = "create_election"
             /\ Leaves(p, "create_election") =>
                  /\ ~exists
                  /\ Extends(Elections, Elections', 1)
                  /\ Elections'[Len(Elections')].name = n
                  /\ Candidates' = Candidates
                  /\ pc'[p] = "insert_candidates"
             /\ Leaves(p, "insert_candidates") =>
                  /\ pc'[p] = "done" /\ ret'[p] = "True"
                  /\ Elections' = Elections
                  /\ Elections[Len(Elections)].name = n
                  /\ Extends(Candidates, Candidates', Len(batch))
                  /\ \A i \in 1..Len(batch) :
                       /\ Candidates'[Len(Candidates) + i].election_id = Len(Elections)
                       /\ Candidates'[Len(Candidates) + i].name = batch[i].name]_vars

C5_Witness ==
  \E p \in Procs :
    /\ pc[p] = "done" /\ kwargs[p].query_type = "create_election"
    /\ ret[p] = "True"
    /\ Len(kwargs[p].candidates) = 2
    /\ Len(Elections) = 2
    /\ Cardinality({c \in 1..Len(Candidates) : Candidates[c].election_id = 2}) = 2

(* C6: with operations run one at a time, no two Election rows have the    *)
(* same name.                                                              *)
C6_ElectionNamesUnique ==
  \A i, j \in 1..Len(Elections) : Elections[i].name = Elections[j].name => i = j

C6_Witness ==
  \E p \in Procs :
    /\ pc[p] = "done" /\ kwargs[p].query_type = "create_election"
    /\ ret[p] = "False"
    /\ Cardinality(ElectionRowsNamed(Elections, kwargs[p].election_name)) = 1

(* C7: when two create_election calls with the same election_name have     *)
(* both passed the existence check before either insert, each inserts its  *)
(* Election row and its candidate batch under its own generated id: both   *)
(* calls return true and two Election rows with that name exist.           *)
C7_CreateElectionRaceInsertsTwice ==
  [][\A p, q \in Procs :
       ( /\ BothCalled(p, q, "create_election")
         /\ kwargs[p].election_name = kwargs[q].election_name
         /\ WellFormedDates(kwargs[p]) /\ WellFormedDates(kwargs[q])
         /\ pc[q] \in {"create_election", "insert_candidates"}
              \/ (pc[q] = "done" /\ ret[q] = "True") )
       =>
         LET n == kwargs[p].election_name
             before == Cardinality(ElectionRowsNamed(Elections, n))
             after == Cardinality(ElectionRowsNamed(Elections', n))
         IN  /\ Leaves(p, "create_election") =>
                  /\ pc'[p] = "insert_candidates"
                  /\ after = before + 1
                  /\ pc[q] = "create_election" => before = 0
                  /\ pc[q] # "create_election" => after = 2
                  /\ election_id'[p] # election_id[q]
                  /\ election_id'[p] \in ElectionRowsNamed(Elections', n)
             /\ Leaves(p, "insert_candidates") =>
                  /\ pc'[p] = "done" /\ ret'[p] = "True"
                  /\ election_id[p] # election_id[q]
                  /\ Extends(Candidates, Candidates', Len(kwargs[p].candidates))
                  /\ \A i \in 1..Len(kwargs[p].candidates) :
                       Candidates'[Len(Candidates) + i].election_id = election_id[p]
                  /\ pc[q] = "done" =>
                       /\ after = 2
                       /\ \A r \in {p, q} :
                            Cardinality({c \in 1..Len(Candidates') :
                                           Candidates'[c].election_id = election_id[r]})
                              = Len(kwargs[r].candidates)]_vars

C7_Witness ==
  \E p, q \in Procs :
    /\ BothCalled(p, q, "create_election")
    /\ pc[p] = "done" /\ pc[q] = "done"
    /\ ret[p] = "True" /\ ret[q] = "True"
    /\ kwargs[p].election_name = kwargs[q].election_name
    /\ Cardinality(ElectionRowsNamed(Elections, kwargs[p].election_name)) = 2
    /\ Len(kwargs[p].candidates) = 1 /\ Len(kwargs[q].candidates) = 2
    /\ Len(Candidates) = 3

UserRowsTaking(u, e) ==
  {i \in 1..Len(Users) : Users[i].username = u \/ Users[i].email = e}

(* C8: a register call run without interleaving returns true and inserts   *)
(* exactly one User row (that username, email and password) if no User row *)
(* has that username or that email; otherwise it returns false and the     *)
(* Users table is unchanged. Registering a username a second time, with    *)
(* the same or another email, returns false and leaves its single row.     *)
C8_RegisterContract ==
  [][\A p \in Procs :
       kwargs[p].query_type = "register" =>
         LET u == kwargs[p].username
             e == kwargs[p].email
             taken == UserRowsTaking(u, e) # {}
         IN  /\ Leaves(p, "check_user") =>
                  /\ Users' = Users
                  /\ IF taken THEN pc'[p] = "done" /\ ret'[p] = "False"
                              ELSE pc'[p] = "register"
             /\ Leaves(p, "register") =>
                  /\ ~taken
                  /\ pc'[p] = "done" /\ ret'[p] = "True"
                  /\ Extends(Users, Users', 1)
                  /\ Users'[Len(Users')].username = u
                  /\ Users'[Len(Users')].email = e
                  /\ Users'[Len(Users')].password = kwargs[p].password
             /\ Returns(p, "register") =>
                  Cardinality({i \in 1..Len(Users') : Users'[i].username = u}) <= 1]_vars

C8_Witness ==
  \E p \in Procs :
    /\ pc[p] = "done" /\ kwargs[p].query_type = "register"
    /\ ret[p] = "False"
    /\ \E i \in 1..Len(Users) :
         /\ Users[i].username = kwargs[p].username
         /\ Users[i].email # kwargs[p].email
         /\ \A j \in 1..Len(Users) : Users[j].username = kwargs[p].username => j = i

(* C9: with operations run one at a time, no two User rows share a         *)
(* username and no two User rows share an email.                           *)
C9_UsernamesAndEmailsUnique ==
  \A i, j \in 1..Len(Users) :
    (Users[i].username = Users[j].username \/ Users[i].email = Users[j].email) => i = j

C9_Witness ==
  /\ Len(Users) = 2
  /\ \E p \in Procs :
       /\ pc[p] = "done" /\ kwargs[p].query_type = "register"
       /\ ret[p] = "True"
       /\ Users[2].username = kwargs[p].username

CandidateRowsIn(n) ==
  {c \in 1..Len(Candidates) :
     \E e \in 1..Len(Elections) : e = Candidates[c].election_id /\ Elections[e].name = n}
\* the Vote rows cast for candidate row c
VoteRowsFor(c) == {v \in 1..Len(Votes) : Votes[v].candidate_id = c}
RECURSIVE SumOfCounts(_, _)
SumOfCounts(rows, i) ==
  IF i > Len(rows) THEN 0 ELSE rows[i].vote_count + SumOfCounts(rows, i + 1)
\* client p's read request of that kind gets its result in this step
Reads(p, query_type) ==
  /\ kwargs[p].query_type = query_type
  /\ Leaves(p, "view_elections")

(* C11: view_results(election_name) returns exactly one row per Candidate  *)
(* row of the election, candidates with zero votes and candidates sharing  *)
(* a name included; each row's vote_count is the number of Vote rows cast  *)
(* for that candidate, so the counts sum to the election's Vote rows.      *)
C11_OneResultRowPerCandidate ==
  [][\A p \in Procs :
       Reads(p, "view_results") =>
         LET n == kwargs[p].election_name
             rows == results'[p]
         IN  /\ Len(rows) = Cardinality(CandidateRowsIn(n))
             /\ \E f \in [1..Len(rows) -> CandidateRowsIn(n)] :
                  /\ \A i, j \in 1..Len(rows) : f[i] = f[j] => i = j
                  /\ \A i \in 1..Len(rows) :
                       /\ rows[i].candidate_name = Candidates[f[i]].name
                       /\ rows[i].vote_count = Cardinality(VoteRowsFor(f[i]))
             /\ SumOfCounts(rows, 1) =
                  Cardinality({v \in 1..Len(Votes) :
                                 \E e \in ElectionRowsNamed(Elections, n) :
                                   Votes[v].election_id = e})]_vars

\* candidate name x sorts at or before candidate name y
NameAtOrBefore(x, y) == <<x, y>> \in {<<"a", "a">>, <<"a", "b">>, <<"b", "b">>}

(* C12: the rows of view_results are ordered by vote_count descending,     *)
(* ties by candidate_name ascending: of two consecutive rows the first     *)
(* has the larger count, or the same count and a name not after the        *)
(* second's.                                                               *)
C12_ResultsOrdered ==
  [][\A p \in Procs :
       Reads(p, "view_results") =>
         \A i \in 1..(Len(results'[p]) - 1) :
           LET r1 == results'[p][i]
               r2 == results'[p][i + 1]
           IN  \/ r1.vote_count > r2.vote_count
               \/ /\ r1.vote_count = r2.vote_count
                  /\ NameAtOrBefore(r1.candidate_name, r2.candidate_name)]_vars

C12_Witness ==
  \E p \in Procs :
    /\ pc[p] = "done" /\ kwargs[p].query_type = "view_results"
    /\ Len(results[p]) = 2
    /\ results[p][1].candidate_name = "b" /\ results[p][1].vote_count = 1
    /\ results[p][2].candidate_name = "a" /\ results[p][2].vote_count = 0

\* the Election rows whose window holds the instant t, both ends included
LiveAt(t) ==
  {e \in 1..Len(Elections) :
     /\ at_or_before(Elections[e].start_time, t, 1)
     /\ at_or_before(t, Elections[e].end_time, 1)}

(* C13: list_live_elections returns exactly the Election rows with         *)
(* start_time <= now <= end_time, both bounds inclusive, for an instant    *)
(* now read from the clock during the call; each such row is returned      *)
(* once, with its own columns.                                             *)
C13_LiveElectionsAreThoseOpenNow ==
  [][\A p \in Procs :
       Reads(p, "list_live_elections") =>
         /\ now'[p] \in Readings
         /\ \E t \in {now'[p][1], now'[p][2]} :
              /\ {results'[p][i].id : i \in 1..Len(results'[p])} = LiveAt(t)
              /\ Len(results'[p]) = Cardinality(LiveAt(t))
         /\ \A i \in 1..Len(results'[p]) :
              LET row == results'[p][i]
              IN  /\ row.name = Elections[row.id].name
                  /\ row.start_time = Elections[row.id].start_time
                  /\ row.end_time = Elections[row.id].end_time]_vars

C13_Witness ==
  \E p \in Procs :
    /\ pc[p] = "done" /\ kwargs[p].query_type = "list_live_elections"
    /\ now[p][1] # now[p][2]
    /\ Len(Elections) = 2
    /\ Len(results[p]) = 1
    /\ results[p][1].end_time = format_date(NextDay)
    /\ \E e \in 1..Len(Elections) : Elections[e].end_time = format_date(GoodDate)

(* C14: a create_election call whose start_date or end_date is not a      *)
(* well-formed YYYY-MM-DD date ends with a validation error and never      *)
(* with false, whatever the store holds, an Election row of that name      *)
(* included.                                                               *)
C14_MalformedDateIsValidationError ==
  [][\A p \in Procs :
       ( /\ Returns(p, "create_election")
         /\ ~(ParsesAsDate(kwargs[p].start_date) /\ ParsesAsDate(kwargs[p].end_date)) )
       => ret'[p] = "ValueError"]_vars

\* the operation names the dispatcher serves
PublicOperations ==
  {"login", "register", "vote", "create_election", "view_results", "list_elections",
   "list_live_elections", "list_election_candidates"}

(* C15: a request whose operation name is not one of the eight public      *)
(* ones (no name, an unknown name, or an internal one: check_user,         *)
(* check_vote, check_election, insert_candidates) is answered at once      *)
(* with a validation error, which is not false; no statement runs for it   *)
(* and the four tables stay as they were.                                  *)
C15_UnknownOperationRejected ==
  [][\A p \in Procs :
       kwargs'[p].query_type \notin PublicOperations \cup {"none"} =>
         /\ pc'[p] = "done"
         /\ ret'[p] = "ValueError"
         /\ results'[p] = <<>>
         /\ tables' = tables]_vars

C15_Witness ==
  \E p \in Procs :
    /\ pc[p] = "done" /\ kwargs[p].query_type = "insert_candidates"
    /\ ret[p] = "ValueError"
    /\ kwargs[p].election_id \in 1..Len(Elections)
    /\ \A c \in 1..Len(Candidates) : Candidates[c].election_id # kwargs[p].election_id

(* C16: when the backend fails a statement of register, vote or           *)
(* create_election, the call ends with an error that is neither true nor   *)
(* false: it never returns true although one of its writes was refused,    *)
(* and never false because of the fault.                                   *)
C16_BackendFaultIsReported ==
  [][\A p \in Procs :
       (Fault(p) /\ kwargs[p].query_type \in {"register", "vote", "create_election"})
       => ret'[p] \notin {"True", "False"}]_vars

(* C17: when no row matches, list_live_elections,                         *)
(* list_election_candidates and view_results each return an empty          *)
(* sequence, which the caller can iterate over, and not an absent value.   *)
C17_NoMatchIsEmptySequence ==
  [][\A p \in Procs :
       ( /\ \E t \in {"list_live_elections", "list_election_candidates", "view_results"} :
              Reads(p, t)
         /\ pc'[p] = "done"
         /\ results'[p] = <<>> )
       => ret'[p] = "list"]_vars

\* the four listed columns of a candidate
Listed(c) ==
  [name |-> c.name, birth_date |-> c.birth_date, occupation |-> c.occupation,
   program |-> c.program]
RECURSIVE StoredFor(_, _, _, _)
\* the candidates stored for the elections named n, in id order from row i
StoredFor(candidates, elections, n, i) ==
  IF i > Len(candidates) THEN <<>>
  ELSE (IF \E e \in ElectionRowsNamed(elections, n) : candidates[i].election_id = e
        THEN <<Listed(candidates[i])>> ELSE <<>>)
       \o StoredFor(candidates, elections, n, i + 1)
\* the batch as the caller expects to read it back; midnight tells whether
\* the birth_date comes back with the time 00:00:00 appended
Submitted(batch, midnight) ==
  [i \in 1..Len(batch) |->
     [name |-> batch[i].name,
      birth_date |-> IF midnight
                     THEN <<batch[i].birth_date[1], batch[i].birth_date[2],
                            batch[i].birth_date[3], 0, 0, 0>>
                     ELSE batch[i].birth_date,
      occupation |-> batch[i].occupation, program |-> batch[i].program]]
\* one step of the round trip: a create_election that returns true leaves
\* exactly its batch stored for the name; nothing but such a call changes
\* what is stored for a name; list_election_candidates returns what is
\* stored for the name, each candidate once and none of another election
RoundTripStep(midnight) ==
  /\ \A p \in Procs :
       (Leaves(p, "insert_candidates") /\ ret'[p] = "True") =>
         StoredFor(Candidates', Elections', kwargs[p].election_name, 1)
           = Submitted(kwargs[p].candidates, midnight)
  /\ \A n \in ElectionNames :
       StoredFor(Candidates', Elections', n, 1) # StoredFor(Candidates, Elections, n, 1) =>
         \E p \in Procs :
           /\ Leaves(p, "insert_candidates") /\ ret'[p] = "True"
           /\ kwargs[p].election_name = n
  /\ \A p \in Procs :
       Reads(p, "list_election_candidates") =>
         LET rows == results'[p]
             stored == StoredFor(Candidates, Elections, kwargs[p].election_name, 1)
         IN  /\ Len(rows) = Len(stored)
             /\ \A i, j \in 1..Len(rows) : rows[i].id = rows[j].id => i = j
             /\ \A i \in 1..Len(rows) :
                  /\ rows[i].id \in 1..Len(Candidates)
                  /\ \E e \in ElectionRowsNamed(Elections, kwargs[p].election_name) :
                       Candidates[rows[i].id].election_id = e
                  /\ Listed(rows[i]) = Listed(Candidates[rows[i].id])
\* a listing with no row to return yields None, any other the rows
EmptyListingIsNone ==
  \A p \in Procs :
    Reads(p, "list_election_candidates") =>
      ret'[p] = IF results'[p] = <<>> THEN "None" ELSE "list"

Grows(table, tableNext) ==
  /\ Len(tableNext) >= Len(table)
  /\ SubSeq(tableNext, 1, Len(table)) = table
\* the Vote rows cast for a candidate of an election named n
VoteRowsIn(n) == {v \in 1..Len(Votes) : Votes[v].candidate_id \in CandidateRowsIn(n)}

(* C19: in any sequence of operations, interleaved or not, no row of       *)
(* Users, Elections, Candidates or Votes is removed or changed: each table *)
(* only gains rows. A recorded vote is therefore counted by every later    *)
(* view_results of its election: the counts returned add up to all Vote    *)
(* rows held for the election, and the candidate of each has a row.        *)
C19_TablesOnlyGrow ==
  [][/\ Grows(Users, Users')
     /\ Grows(Elections, Elections')
     /\ Grows(Candidates, Candidates')
     /\ Grows(Votes, Votes')
     /\ \A p \in Procs :
          Reads(p, "view_results") =>
            /\ SumOfCounts(results'[p], 1) = Cardinality(VoteRowsIn(kwargs[p].election_name))
            /\ \A v \in VoteRowsIn(kwargs[p].election_name) :
                 \E i \in 1..Len(results'[p]) :
                   /\ results'[p][i].candidate_name = Candidates[Votes[v].candidate_id].name
                   /\ results'[p][i].vote_count >= 1]_vars

C19_Witness ==
  \E p, q \in Procs :
    /\ pc[p] = "done" /\ kwargs[p].query_type = "view_results"
    /\ Len(Votes) = 2 /\ Len(Users) >= 1 /\ Len(Candidates) >= 1
    /\ SumOfCounts(results[p], 1) = 2
    /\ p # q /\ pc[q] = "done" /\ kwargs[q].query_type = "vote" /\ ret[q] = "True"

(* C20: every election returned by list_live_elections or list_elections  *)
(* has at least one Candidate row, in every reachable state: also between  *)
(* the two inserts of a create_election another client runs, and after a   *)
(* create_election called with an empty candidates sequence.               *)
C20_ListedElectionsHaveCandidates ==
  [][\A p \in Procs :
       (Reads(p, "list_elections") \/ Reads(p, "list_live_elections")) =>
         \A i \in 1..Len(results'[p]) :
           \E c \in 1..Len(Candidates) : Candidates[c].election_id = results'[p][i].id]_vars

\* the Candidate rows of Election row e
CandidatesOf(candidates, e) == {c \in 1..Len(candidates) : candidates[c].election_id = e}

(* C21: create_election has no rollback. When its candidate batch is not   *)
(* inserted after the Election row was (a malformed birth_date, an empty   *)
(* batch), the Election row stays in the store with zero candidates; every *)
(* later create_election with that name returns false and writes nothing,  *)
(* and no other step gives the election a candidate.                       *)
C21_NoRollback ==
  [][/\ \A p \in Procs :
          (Leaves(p, "insert_candidates") /\ Candidates' = Candidates) =>
            /\ pc'[p] = "done"
            /\ Elections' = Elections
            /\ election_id[p] \in 1..Len(Elections)
            /\ Elections[election_id[p]].name = kwargs[p].election_name
            /\ CandidatesOf(Candidates', election_id[p]) = {}
     /\ \A p \in Procs :
          ( /\ kwargs[p].query_type = "create_election"
            /\ Leaves(p, "check_election")
            /\ ElectionRowsNamed(Elections, kwargs[p].election_name) # {} )
          => /\ pc'[p] = "done" /\ ret'[p] = "False"
             /\ tables' = tables
     /\ \A e \in 1..Len(Elections) :
          ( /\ CandidatesOf(Candidates, e) = {}
            /\ \A p \in Procs : ~(pc[p] = "insert_candidates" /\ election_id[p] = e) )
          => CandidatesOf(Candidates', e) = {}]_vars

C21_Witness ==
  \E p \in Procs :
    /\ pc[p] = "done" /\ kwargs[p].query_type = "create_election"
    /\ ret[p] = "False"
    /\ Len(kwargs[p].candidates) = 2
    /\ WellFormedDates(kwargs[p])
    /\ \E e \in ElectionRowsNamed(Elections, kwargs[p].election_name) :
         CandidatesOf(Candidates, e) = {}

\* a User row carries the username
Registered(u) == \E i \in 1..Len(Users) : Users[i].username = u

FormIsComplete(form) ==
  /\ Len(form.candidates) >= 1
  /\ form.election_name # "" /\ form.election_description # ""
  /\ form.creator_username # ""
  /\ form.start_date # <<>> /\ form.end_date # <<>>
  /\ ParsesAsDate(form.start_date) /\ ParsesAsDate(form.end_date)
  /\ form.start_date # form.end_date
  /\ at_or_before(form.start_date, form.end_date, 1)

(* C23: NewElectionScreen.create_election sends a create_election request  *)
(* only when the candidate list is non-empty, every field is filled, both  *)
(* dates parse as YYYY-MM-DD and start_date is strictly before end_date;   *)
(* otherwise it shows an error and sends nothing. Every election created   *)
(* through the screen has start_time < end_time.                           *)
C23_ScreenSendsOnlyValidForms ==
  [][/\ \A p \in Procs :
          screen'[p] # screen[p] =>
            IF FormIsComplete(screen'[p].form)
            THEN /\ screen'[p].message = "none"
                 /\ pc'[p] = "check_election"
                 /\ kwargs'[p].query_type = "create_election"
                 /\ kwargs'[p].candidates = screen'[p].form.candidates
                 /\ kwargs'[p].election_name = screen'[p].form.election_name
                 /\ kwargs'[p].start_date = screen'[p].form.start_date
                 /\ kwargs'[p].end_date = screen'[p].form.end_date
            ELSE /\ screen'[p].message \notin {"none", "closed"}
                 /\ pc'[p] = "idle" /\ kwargs'[p] = NoArgs
                 /\ tables' = tables
     /\ \A e \in 1..Len(Elections') :
          /\ Elections'[e].start_time # Elections'[e].end_time
          /\ at_or_before(Elections'[e].start_time, Elections'[e].end_time, 1)]_vars

C23_Witness ==
  /\ Len(Elections) = 1
  /\ \E p \in ScreenProcs :
       /\ pc[p] = "idle"
       /\ screen[p].message = "End date must be after start date."
       /\ screen[p].form.start_date = screen[p].form.end_date
       /\ screen[p].form.election_name = "n1"

\* the calendar date d at 00:00:00
AtMidnight(d) == <<d[1], d[2], d[3], 0, 0, 0>>
\* x is a valid calendar date at 00:00:00
IsMidnightOfADate(x) ==
  /\ Len(x) = 6
  /\ ParsesAsDate(<<x[1], x[2], x[3]>>)
  /\ x[4] = 0 /\ x[5] = 0 /\ x[6] = 0

(* C24: every start_date, end_date and birth_date that is accepted is      *)
(* written to the store as the same calendar date with the time 00:00:00,  *)
(* and a string that is not a valid YYYY-MM-DD date is never written: the  *)
(* statement that would carry it inserts nothing.                          *)
C24_DatesStoredAtMidnight ==
  [][/\ \A p \in Procs :
          Leaves(p, "create_election") =>
            IF ParsesAsDate(kwargs[p].start_date) /\ ParsesAsDate(kwargs[p].end_date)
            THEN /\ Len(Elections') = Len(Elections) + 1
                 /\ Elections'[Len(Elections')].start_time = AtMidnight(kwargs[p].start_date)
                 /\ Elections'[Len(Elections')].end_time = AtMidnight(kwargs[p].end_date)
            ELSE Elections' = Elections
     /\ \A p \in Procs :
          Leaves(p, "insert_candidates") =>
            IF \A i \in 1..Len(kwargs[p].candidates) :
                 ParsesAsDate(kwargs[p].candidates[i].birth_date)
            THEN /\ Len(Candidates') = Len(Candidates) + Len(kwargs[p].candidates)
                 /\ \A i \in 1..Len(kwargs[p].candidates) :
                      Candidates'[Len(Candidates) + i].birth_date =
                        AtMidnight(kwargs[p].candidates[i].birth_date)
            ELSE Candidates' = Candidates
     /\ \A e \in 1..Len(Elections') :
          IsMidnightOfADate(Elections'[e].start_time) /\ IsMidnightOfADate(Elections'[e].end_time)
     /\ \A c \in 1..Len(Candidates') : IsMidnightOfADate(Candidates'[c].birth_date)]_vars

C24_Witness ==
  /\ Len(Elections) = 2 /\ Len(Candidates) >= 1
  /\ \E p \in Procs :
       /\ pc[p] = "done" /\ kwargs[p].query_type = "create_election"
       /\ ret[p] = "ValueError"
       /\ \E i \in 1..Len(kwargs[p].candidates) :
            ~ParsesAsDate(kwargs[p].candidates[i].birth_date)

(* C25: a create_election call that ends with a date-format error has     *)
(* inserted nothing, whichever date is malformed (start_date, end_date or  *)
(* a candidate's birth_date): when the error is raised the store holds no  *)
(* Election row of the call (run one at a time, the call got past the      *)
(* name check, so any row of that name is its own) and no Candidate row    *)
(* was added.                                                              *)
C25_DateErrorLeavesStoreUnchanged ==
  [][\A p \in Procs :
       (Returns(p, "create_election") /\ ret'[p] = "ValueError") =>
         /\ ElectionRowsNamed(Elections', kwargs[p].election_name) = {}
         /\ Candidates' = Candidates
         /\ Users' = Users /\ Votes' = Votes]_vars

(* C26: in every reachable state every Vote row references an existing    *)
(* Election row and a Candidate row of that same election, and every       *)
(* Candidate row references an existing Election row.                      *)
C26_ReferencesResolve ==
  /\ \A v \in 1..Len(Votes) :
       /\ Votes[v].election_id \in 1..Len(Elections)
       /\ Votes[v].candidate_id \in 1..Len(Candidates)
       /\ Candidates[Votes[v].candidate_id].election_id = Votes[v].election_id
  /\ \A c \in 1..Len(Candidates) : Candidates[c].election_id \in 1..Len(Elections)

C26_Witness ==
  /\ Len(Elections) = 2
  /\ \E v, w \in 1..Len(Votes) :
       /\ Votes[v].election_id # Votes[w].election_id
       /\ Votes[v].candidate_id # Votes[w].candidate_id

\* the clients whose create_election has inserted Election row e and has
\* yet to run its candidates statement
CreatingCalls(e) == {p \in Procs : pc[p] = "insert_candidates" /\ election_id[p] = e}

(* C27: candidates are attached to an election only by the create_election *)
(* call that inserted it. Once that call has finished, with true or with   *)
(* an error after inserting the Election row, no operation adds, removes   *)
(* or changes a Candidate row of the election; while it runs, only its     *)
(* own candidates statement does.                                          *)
C27_CandidatesOnlyFromCreatingCall ==
  [][/\ \A c \in 1..Len(Candidates) :
          c \in 1..Len(Candidates') /\ Candidates'[c] = Candidates[c]
     /\ \A e \in 1..Len(Elections) :
          /\ Cardinality(CreatingCalls(e)) <= 1
          /\ CandidatesOf(Candidates', e) # CandidatesOf(Candidates, e) =>
               \E p \in CreatingCalls(e) :
                 /\ pc'[p] = "done"
                 /\ kwargs[p].query_type = "create_election"
                 /\ kwargs[p].election_name = Elections[e].name
                 /\ Cardinality(CandidatesOf(Candidates', e)) = Len(kwargs[p].candidates)
     /\ \A e \in (1..Len(Elections')) \ (1..Len(Elections)) :
          CandidatesOf(Candidates', e) = {}]_vars

C27_Witness ==
  /\ Len(Elections) = 2
  /\ CandidatesOf(Candidates, 1) # {} /\ CandidatesOf(Candidates, 2) # {}
  /\ \A p \in Procs : pc[p] = "done"
  /\ \E p, q \in Procs :
       /\ kwargs[p].query_type = "vote" /\ ret[p] = "True"
       /\ kwargs[q].query_type = "create_election" /\ ret[q] = "False"

\* the operations that only read
ReadOperations ==
  {"login", "list_elections", "list_live_elections", "list_election_candidates",
   "view_results"}

(* C28: login, list_elections, list_live_elections,                        *)
(* list_election_candidates and view_results are read-only: from the       *)
(* request to the result, each leaves the User (last_login included),      *)
(* Election, Candidate and Vote tables exactly as they were, whatever the  *)
(* arguments and the result.                                               *)
C28_ReadOperationsChangeNothing ==
  [][\A p \in Procs :
       ( /\ pc'[p] # pc[p]
         /\ kwargs[p].query_type \in ReadOperations
              \/ kwargs'[p].query_type \in ReadOperations )
       => /\ Users' = Users
          /\ Elections' = Elections
          /\ Candidates' = Candidates
          /\ Votes' = Votes]_vars

C28_Witness ==
  /\ Len(Votes) >= 1
  /\ \E p \in Procs :
       /\ pc[p] = "done" /\ kwargs[p].query_type = "login"
       /\ ret[p] = "True"
       /\ \E i \in 1..Len(Users) :
            Users[i].username = kwargs[p].username /\ Users[i].last_login = "NULL"

\* the names of the Election rows, by id: what is left of the table once
\* description, creator and time window are set aside
NamesOf(elections) == [e \in 1..Len(elections) |-> elections[e].name]
\* user u has a vote in an election named n
VotedIn(votes, names, u, n) ==
  \E v \in 1..Len(votes) :
    /\ votes[v].username = u
    /\ votes[v].election_id \in DOMAIN names
    /\ names[votes[v].election_id] = n
\* the Candidate rows named cn of the elections named n
ChosenIn(candidates, names, n, cn) ==
  {c \in 1..Len(candidates) :
     /\ candidates[c].name = cn
     /\ candidates[c].election_id \in DOMAIN names
     /\ names[candidates[c].election_id] = n}
\* the election is open at no instant of the clock
NeverOpen(e) == \A i \in 1..Len(Clock) : e \notin LiveAt(Clock[i])

C30_ExitAtLoginEndsProgram ==
  \A p \in Procs :
    /\ cli[p].login_choice = "0" =>
         cli[p].menu = "ended" /\ cli[p].control_choice = ""
    /\ cli[p].menu = "control" => cli[p].user_logged_in

=============================================================================
